---- MODULE Spec2Model ----
(***************************************************************************)
(* A model of KaggleCompetitionScraper (src/kaggle_scraper.py): the engine *)
(* construction, the identifier extraction, the three scraping stages and  *)
(* the assembly of the result.  Text is kept as strings and taken apart    *)
(* character by character (Len, SubSeq), so that the regular expressions   *)
(* and the CSS substring selectors are computed as the code computes them. *)
(***************************************************************************)
EXTENDS Integers, Sequences, FiniteSets, TLC

(***************************************************************************)
(* Bounds of the model.                                                    *)
(***************************************************************************)
\* path segments appended to the host in an input URL
MaxSegs == 3

(***************************************************************************)
(* Text.                                                                   *)
(***************************************************************************)
Min(S) == CHOOSE m \in S : \A n \in S : m <= n

\* the character of s at position i
Ch(s, i) == SubSeq(s, i, i)

\* lit occurs in s at position i
MatchAt(s, lit, i) ==
    /\ i >= 1
    /\ i + Len(lit) - 1 <= Len(s)
    /\ SubSeq(s, i, i + Len(lit) - 1) = lit

\* "lit in s" / the CSS substring test [attr*="lit"]
Contains(s, lit) == \E i \in 1..Len(s) : MatchAt(s, lit, i)

\* the end of the longest run of characters of s, from position i on, that
\* are outside the set stop (RunEndNot) or inside the set ok (RunEndIn)
RunEndNot(s, i, stop) ==
    LET bad == {j \in i..Len(s) : Ch(s, j) \in stop}
    IN  IF bad = {} THEN Len(s) ELSE Min(bad) - 1

RunEndIn(s, i, ok) ==
    LET bad == {j \in i..Len(s) : Ch(s, j) \notin ok}
    IN  IF bad = {} THEN Len(s) ELSE Min(bad) - 1

NoMatch == [matched |-> FALSE]

\* re.search(lit ++ "([^/]+)", s): the leftmost position where lit is
\* followed by at least one character other than "/", group 1 greedy
ReSearchSegment(lit, s) ==
    LET P == {i \in 1..Len(s) :
                /\ MatchAt(s, lit, i)
                /\ i + Len(lit) <= Len(s)
                /\ Ch(s, i + Len(lit)) # "/"}
    IN  IF P = {} THEN NoMatch
        ELSE LET b == Min(P) + Len(lit)
             IN  [matched |-> TRUE, group |-> SubSeq(s, b, RunEndNot(s, b, {"/"}))]

Digits == {"0", "1", "2", "3", "4", "5", "6", "7", "8", "9"}

\* re.search(lit ++ "(\d+)", s)
ReSearchDigits(lit, s) ==
    LET P == {i \in 1..Len(s) :
                /\ MatchAt(s, lit, i)
                /\ i + Len(lit) <= Len(s)
                /\ Ch(s, i + Len(lit)) \in Digits}
    IN  IF P = {} THEN NoMatch
        ELSE LET b == Min(P) + Len(lit)
             IN  [matched |-> TRUE, group |-> SubSeq(s, b, RunEndIn(s, b, Digits))]

\* str.strip() for the blank " "
Strip(s) ==
    LET keep == {j \in 1..Len(s) : Ch(s, j) # " "}
    IN  IF keep = {} THEN ""
        ELSE SubSeq(s, Min(keep), CHOOSE m \in keep : \A n \in keep : n <= m)

\* l[:n]
Take(l, n) == SubSeq(l, 1, IF Len(l) < n THEN Len(l) ELSE n)

(***************************************************************************)
(* extract_competition_slug                                                *)
(***************************************************************************)
PAT_C == "/c/"
PAT_COMPETITIONS == "/competitions/"

patterns == <<PAT_C, PAT_COMPETITIONS>>

ValueError == [raised |-> "ValueError"]

\* a variant that answers the empty slug where the code raises
FirstMatchOrEmpty(matches) ==
    IF \A k \in 1..Len(matches) : ~matches[k].matched
    THEN [raised |-> "none", value |-> ""]
    ELSE [raised |-> "none",
          value |-> matches[Min({k \in 1..Len(matches) : matches[k].matched})].group]

\* the first pattern, in list order, that matches anywhere in the url
FirstMatch(matches) ==
    IF \A k \in 1..Len(matches) : ~matches[k].matched THEN ValueError
    ELSE [raised |-> "none",
          value |-> matches[Min({k \in 1..Len(matches) : matches[k].matched})].group]

extract_competition_slug(url) ==
    FirstMatch([k \in 1..Len(patterns) |-> ReSearchSegment(patterns[k], url)])

HOST == "https://www.kaggle.com"

\* f"https://www.kaggle.com/competitions/{competition_slug}/overview"
OverviewUrl(competition_slug) ==
    HOST \o "/competitions/" \o competition_slug \o "/overview"

(***************************************************************************)
(* Markup.  A parsed document (a BeautifulSoup tree) is the sequence of    *)
(* its elements in document order; an element records its tag, its class  *)
(* attribute (the tokens separated by blanks), its data-testid, href and   *)
(* datetime attributes ("" when absent), its own text, and the position of *)
(* its parent (0 for a top-level element).                                 *)
(***************************************************************************)
El(tag, class, testid, href, text, parent) ==
    [tag |-> tag, class |-> class, testid |-> testid, href |-> href,
     datetime |-> "", text |-> text, parent |-> parent]

\* the proper ancestors of element j
Ancestors(soup, j) ==
    LET up[k \in 0..Len(soup)] ==
            IF k = 0 \/ soup[k].parent = 0 THEN {}
            ELSE {soup[k].parent} \cup up[soup[k].parent]
    IN  up[j]

\* the elements a search scoped at element scope looks at: its descendants
\* (scope 0 is the whole document)
Within(soup, scope) ==
    {j \in 1..Len(soup) : scope = 0 \/ scope \in Ancestors(soup, j)}

\* Tag.get_text(): the text of the element and of its descendants, in
\* document order
get_text(soup, i) ==
    LET cat[j \in i..(Len(soup) + 1)] ==
            IF j > Len(soup) THEN ""
            ELSE (IF j = i \/ i \in Ancestors(soup, j) THEN soup[j].text ELSE "")
                 \o cat[j + 1]
    IN  cat[i]

\* the class attribute holds the token t
HasClass(class, t) ==
    \E i \in 1..Len(class) :
        /\ MatchAt(class, t, i)
        /\ (i = 1 \/ Ch(class, i - 1) = " ")
        /\ (i + Len(t) - 1 = Len(class) \/ Ch(class, i + Len(t)) = " ")

\* One simple CSS selector: tag, .cls, [class*="clsSub"],
\* [data-testid="testid"], [href*="hrefSub"]; "" leaves a part out.
Sel(tag, cls, clsSub, testid, hrefSub) ==
    [tag |-> tag, cls |-> cls, clsSub |-> clsSub, testid |-> testid,
     hrefSub |-> hrefSub]

MatchSimple(e, q) ==
    /\ q.tag = "" \/ e.tag = q.tag
    /\ q.cls = "" \/ HasClass(e.class, q.cls)
    /\ q.clsSub = "" \/ Contains(e.class, q.clsSub)
    /\ q.testid = "" \/ e.testid = q.testid
    /\ q.hrefSub = "" \/ Contains(e.href, q.hrefSub)

\* A selector is <<q>> or the descendant combinator <<ancestor, q>>.
Matches(soup, j, selector) ==
    /\ MatchSimple(soup[j], selector[Len(selector)])
    /\ Len(selector) = 2 =>
          \E a \in Ancestors(soup, j) : MatchSimple(soup[a], selector[1])

\* the positions of a set of positions, in document order
RECURSIVE InOrder(_)
InOrder(S) ==
    IF S = {} THEN <<>> ELSE <<Min(S)>> \o InOrder(S \ {Min(S)})

\* Tag.select(selector): every match below scope, in document order
select(soup, scope, selector) ==
    InOrder({j \in Within(soup, scope) : Matches(soup, j, selector)})

\* Tag.select_one(selector): the first match in document order, 0 for None
select_one(soup, scope, selector) ==
    LET hits == {j \in Within(soup, scope) : Matches(soup, j, selector)}
    IN  IF hits = {} THEN 0 ELSE Min(hits)

\* the loop "for selector in selectors: element = select_one(selector);
\* if element: ..." stops at the first selector that answers: its element,
\* 0 when no selector answers
FirstOf(found) ==
    IF \A k \in 1..Len(found) : found[k] = 0 THEN 0
    ELSE found[Min({k \in 1..Len(found) : found[k] # 0})]

FirstElement(soup, scope, selectors) ==
    FirstOf([k \in 1..Len(selectors) |-> select_one(soup, scope, selectors[k])])

\* a cascade that answers the empty string when no query finds an element
TextOrEmpty(soup, element, default) ==
    IF element = 0 THEN "" ELSE Strip(get_text(soup, element))

\* element.get_text().strip(), or the default when there is no element
TextOr(soup, element, default) ==
    IF element = 0 THEN default ELSE Strip(get_text(soup, element))

\* find_all(tags, class_=re.compile("a|b|c")): the pattern is searched in
\* the class tokens
find_all_class(soup, scope, tags, words) ==
    InOrder({j \in Within(soup, scope) :
                /\ soup[j].tag \in tags
                /\ \E w \in words : Contains(soup[j].class, w)})

\* markdownify of an element's markup, for elements without inline
\* formatting: the tags go, the text stays
md(soup, i) == get_text(soup, i)

MdOr(soup, element, default) ==
    IF element = 0 THEN default ELSE md(soup, element)

(***************************************************************************)
(* The overview cascades.                                                  *)
(***************************************************************************)
EmptyDict == [k \in {} |-> ""]

\* str.lower() on the letters the markup uses
LowerCh(c) ==
    CASE c = "A" -> "a" [] c = "B" -> "b" [] c = "C" -> "c" [] c = "D" -> "d"
      [] c = "E" -> "e" [] c = "F" -> "f" [] c = "G" -> "g" [] c = "H" -> "h"
      [] c = "I" -> "i" [] c = "J" -> "j" [] c = "K" -> "k" [] c = "L" -> "l"
      [] c = "M" -> "m" [] c = "N" -> "n" [] c = "O" -> "o" [] c = "P" -> "p"
      [] c = "Q" -> "q" [] c = "R" -> "r" [] c = "S" -> "s" [] c = "T" -> "t"
      [] c = "U" -> "u" [] c = "V" -> "v" [] c = "W" -> "w" [] c = "X" -> "x"
      [] c = "Y" -> "y" [] c = "Z" -> "z" [] OTHER -> c

RECURSIVE Lower(_)
Lower(s) == IF s = "" THEN "" ELSE LowerCh(Head(s)) \o Lower(Tail(s))

title_selectors == <<
    <<Sel("h1", "", "", "competition-title", "")>>,
    <<Sel("h1", "sc-fFeiMQ", "", "", "")>>,
    <<Sel("h1", "sc-hKMtZM", "", "", "")>>,
    <<Sel("h1", "sc-ksYbfQ", "", "", "")>>,
    <<Sel("h1", "sc-dxgOiQ", "", "", "")>>,
    <<Sel("", "competition-title", "", "", ""), Sel("h1", "", "", "", "")>>,
    <<Sel("", "competition-header", "", "", ""), Sel("h1", "", "", "", "")>>,
    <<Sel("div", "", "", "competition-title", ""), Sel("h1", "", "", "", "")>>,
    <<Sel("h1", "", "sc-", "", "")>>,
    <<Sel("h1", "", "competition", "", "")>>,
    <<Sel("h1", "", "", "", "")>> >>

_extract_title(soup) ==
    TextOr(soup, FirstElement(soup, 0, title_selectors), "Title not found")

description_selectors == <<
    <<Sel("", "", "", "competition-description", "")>>,
    <<Sel("", "", "", "overview-description", "")>>,
    <<Sel("", "sc-competition-overview__content", "", "", "")>>,
    <<Sel("", "competition-description", "", "", "")>>,
    <<Sel("", "competition-overview-description", "", "", "")>>,
    <<Sel("", "overview-description", "", "", "")>>,
    <<Sel("", "markdown", "", "", "")>>,
    <<Sel("", "rendered-markdown", "", "", "")>>,
    <<Sel("div", "", "markdown", "", "")>>,
    <<Sel("div", "", "overview", "", "")>>,
    <<Sel("div", "", "description", "", "")>> >>

\* len(div.get_text().strip()) > 100
MinSubstance == 100
\* content_divs[:3]
MaxContentDivs == 3

\* find_all(['div'], class_=lambda x: x and 'markdown' in x.lower())
MarkdownDivs(soup) ==
    {j \in 1..Len(soup) :
        /\ soup[j].tag = "div"
        /\ soup[j].class # ""
        /\ Contains(Lower(soup[j].class), "markdown")}

\* the first of content_divs[:3] with more than 100 characters of text
RichDiv(soup, content_divs) ==
    FirstOf([n \in 1..Len(Take(content_divs, MaxContentDivs)) |->
                IF Len(Strip(get_text(soup, content_divs[n]))) > MinSubstance
                THEN content_divs[n] ELSE 0])

\* the element the description is read from, 0 when every tier misses
DescriptionElement(selected, markdown_elements, rich) ==
    IF selected # 0 THEN selected
    ELSE IF markdown_elements # {} THEN Min(markdown_elements)
    ELSE rich

_extract_description(soup) ==
    MdOr(soup,
         DescriptionElement(
             FirstElement(soup, 0, description_selectors),
             MarkdownDivs(soup),
             RichDiv(soup, find_all_class(soup, 0, {"div"},
                                          {"content", "text", "body"}))),
         "Description not found")

timeline_selectors == <<
    <<Sel("", "competition-timeline", "", "", "")>>,
    <<Sel("", "competition-sidebar", "", "", "")>>,
    <<Sel("", "", "", "competition-timeline", "")>> >>

\* every selector that matches is visited, so a later one overwrites the
\* deadline an earlier one set
\* the datetime of the first date element below element that has one
FirstDatetime(soup, element) ==
    IF element = 0 THEN ""
    ELSE LET dated == {j \in Within(soup, element) :
                          /\ soup[j].tag \in {"time", "span"}
                          /\ \E word \in {"date", "time"} :
                                 Contains(soup[j].class, word)
                          /\ soup[j].datetime # ""}
         IN  IF dated = {} THEN "" ELSE soup[Min(dated)].datetime

\* the dictionary left by the loop over the selectors: the last datetime set
LastSet(dates) ==
    IF \A k \in 1..Len(dates) : dates[k] = "" THEN EmptyDict
    ELSE [deadline |->
            dates[CHOOSE k \in 1..Len(dates) :
                     /\ dates[k] # ""
                     /\ \A n \in 1..Len(dates) : dates[n] # "" => n <= k]]

_extract_timeline(soup) ==
    LastSet([k \in 1..Len(timeline_selectors) |->
                FirstDatetime(soup, select_one(soup, 0, timeline_selectors[k]))])

reward_selectors == <<
    <<Sel("", "", "", "competition-prize", "")>>,
    <<Sel("", "", "", "prize", "")>>,
    <<Sel("", "competition-prize", "", "", "")>>,
    <<Sel("", "prize-amount", "", "", "")>>,
    <<Sel("", "prize", "", "", "")>>,
    <<Sel("div", "", "prize", "", "")>>,
    <<Sel("span", "", "prize", "", "")>> >>

_extract_reward(soup) ==
    TextOr(soup, FirstElement(soup, 0, reward_selectors),
           "Reward information not found")

eval_selectors == <<
    <<Sel("", "", "", "competition-evaluation", "")>>,
    <<Sel("", "evaluation-metric", "", "", "")>>,
    <<Sel("", "competition-evaluation", "", "", "")>> >>

_extract_evaluation(soup) ==
    MdOr(soup, FirstElement(soup, 0, eval_selectors),
         "Evaluation information not found")

\* the record scrape_competition_overview returns when nothing raised
OverviewRecord(competition_slug, soup) ==
    [id |-> competition_slug,
     title |-> _extract_title(soup),
     description |-> _extract_description(soup),
     timeline |-> _extract_timeline(soup),
     reward |-> _extract_reward(soup),
     evaluation |-> _extract_evaluation(soup),
     url |-> OverviewUrl(competition_slug)]

(***************************************************************************)
(* The thread assembler.                                                   *)
(***************************************************************************)
\* Python's None where a record is expected
None == [none |-> TRUE]

\* re.findall(r'\d+', text)[0], "" when the list is empty
FirstNumber(text) ==
    LET P == {i \in 1..Len(text) : Ch(text, i) \in Digits}
    IN  IF P = {} THEN ""
        ELSE SubSeq(text, Min(P), RunEndIn(text, Min(P), Digits))

DigitVal(c) ==
    CASE c = "0" -> 0 [] c = "1" -> 1 [] c = "2" -> 2 [] c = "3" -> 3
      [] c = "4" -> 4 [] c = "5" -> 5 [] c = "6" -> 6 [] c = "7" -> 7
      [] c = "8" -> 8 [] c = "9" -> 9

\* int(digits)
RECURSIVE ToInt(_)
ToInt(s) ==
    IF s = "" THEN 0
    ELSE 10 * ToInt(SubSeq(s, 1, Len(s) - 1)) + DigitVal(Ch(s, Len(s)))

\* the count cascades: a selector wins when it finds an element whose text
\* holds a number; otherwise the next selector is tried
NumberIn(soup, element) ==
    IF element = 0 THEN "" ELSE FirstNumber(Strip(get_text(soup, element)))

FirstOrZero(numbers) ==
    IF \A k \in 1..Len(numbers) : numbers[k] = "" THEN 0
    ELSE ToInt(numbers[Min({k \in 1..Len(numbers) : numbers[k] # ""})])

CountCascade(soup, elem, selectors) ==
    FirstOrZero([k \in 1..Len(selectors) |->
                    NumberIn(soup, select_one(soup, elem, selectors[k]))])

author_selectors == <<
    <<Sel("", "author", "", "", "")>>,
    <<Sel("", "username", "", "", "")>>,
    <<Sel("", "", "", "author", "")>> >>

_extract_thread_author(soup, thread_elem) ==
    TextOr(soup, FirstElement(soup, thread_elem, author_selectors), "Unknown")

reply_selectors == <<
    <<Sel("", "reply-count", "", "", "")>>,
    <<Sel("", "posts-count", "", "", "")>>,
    <<Sel("", "", "", "reply-count", "")>> >>

_extract_reply_count(soup, thread_elem) ==
    CountCascade(soup, thread_elem, reply_selectors)

vote_selectors == <<
    <<Sel("", "vote-count", "", "", "")>>,
    <<Sel("", "upvotes", "", "", "")>>,
    <<Sel("", "", "", "vote-count", "")>> >>

_extract_vote_count(soup, thread_elem) ==
    CountCascade(soup, thread_elem, vote_selectors)

\* find(tags, class_=re.compile(...)) below elem: the first, 0 for None
find_class(soup, elem, tags, words) ==
    LET hits == {j \in Within(soup, elem) :
                    /\ soup[j].tag \in tags
                    /\ \E word \in words : Contains(soup[j].class, word)}
    IN  IF hits = {} THEN 0 ELSE Min(hits)

\* date_elem.get('datetime') or date_elem.get_text().strip()
\*     if date_elem else "Unknown"
PostDate(soup, date_elem) ==
    IF date_elem = 0 THEN "Unknown"
    ELSE IF soup[date_elem].datetime # "" THEN soup[date_elem].datetime
    ELSE Strip(get_text(soup, date_elem))

_extract_post_info(soup, post_elem) ==
    [author |-> TextOr(soup,
                       find_class(soup, post_elem, {"span", "div"},
                                  {"author", "username"}),
                       "Unknown"),
     content |-> MdOr(soup,
                      find_class(soup, post_elem, {"div", "p"},
                                 {"content", "text", "message"}),
                      "Content not found"),
     date |-> PostDate(soup, find_class(soup, post_elem, {"time", "span"},
                                        {"date", "time"}))]

\* scrape_thread_posts(..., max_posts: int = 20)
DefaultMaxPosts == 20

\* A response of the plain HTTP client: [status |-> "raise"] when the GET
\* or raise_for_status raised, else [status |-> "ok", soup |-> document].
RAISE == [status |-> "raise"]
Ok(soup) == [status |-> "ok", soup |-> soup]

RECURSIVE MapPosts(_, _)
MapPosts(soup, elems) ==
    IF elems = <<>> THEN <<>>
    ELSE <<_extract_post_info(soup, Head(elems))>> \o MapPosts(soup, Tail(elems))

scrape_thread_posts(response, max_posts) ==
    IF response.status = "raise" THEN <<>>
    ELSE MapPosts(response.soup,
                  Take(find_all_class(response.soup, 0, {"div"},
                                      {"post", "comment", "message"}),
                       max_posts))

title_link_selectors == <<
    <<Sel("a", "", "", "", "/discussion/")>>,
    <<Sel("a", "", "", "discussion-link", "")>>,
    <<Sel("", "discussion-title", "", "", ""), Sel("a", "", "", "", "")>>,
    <<Sel("", "topic-title", "", "", ""), Sel("a", "", "", "", "")>> >>

\* the link the assembler takes for the thread: the first selector that
\* answers, then the generic find('a', href=re.compile('/discussion/'))
OrElse(first, second) == IF first # 0 THEN first ELSE second

ThreadTitleLink(soup, thread_elem) ==
    OrElse(FirstElement(soup, thread_elem, title_link_selectors),
           select_one(soup, thread_elem, <<Sel("a", "", "", "", "/discussion/")>>))

\* the id the assembler reads from the link, NoMatch when it finds none
ThreadId(href) == ReSearchDigits("/discussion/", href)

ThreadUrl(competition_slug, thread_id) ==
    HOST \o "/competitions/" \o competition_slug \o "/discussion/" \o thread_id

\* the id of the thread behind the link, NoMatch without a link
LinkId(soup, title_link) ==
    IF title_link = 0 THEN NoMatch ELSE ThreadId(soup[title_link].href)

\* a variant in which a failed fetch of the posts loses the thread
ThreadRecordLostWithPosts(soup, thread_elem, competition_slug, detail, title_link, thread_id) ==
    IF title_link = 0 THEN None
    ELSE IF ~thread_id.matched THEN None
    ELSE IF detail.status = "raise" THEN None
    ELSE [id |-> thread_id.group,
          title |-> Strip(get_text(soup, title_link)),
          author |-> _extract_thread_author(soup, thread_elem),
          replyCount |-> _extract_reply_count(soup, thread_elem),
          voteCount |-> _extract_vote_count(soup, thread_elem),
          url |-> ThreadUrl(competition_slug, thread_id.group),
          posts |-> scrape_thread_posts(detail, DefaultMaxPosts)]

\* a variant that keeps a link without an id, under the id "0"
ThreadRecordDefaultId(soup, thread_elem, competition_slug, detail, title_link, thread_id) ==
    IF title_link = 0 THEN None
    ELSE [id |-> IF thread_id.matched THEN thread_id.group ELSE "0",
          title |-> Strip(get_text(soup, title_link)),
          author |-> _extract_thread_author(soup, thread_elem),
          replyCount |-> _extract_reply_count(soup, thread_elem),
          voteCount |-> _extract_vote_count(soup, thread_elem),
          url |-> ThreadUrl(competition_slug,
                            IF thread_id.matched THEN thread_id.group ELSE "0"),
          posts |-> scrape_thread_posts(detail, DefaultMaxPosts)]

\* the record, once the link and the id are known; None without them.
\* detail is the response to the GET of the thread's own page.
ThreadRecord(soup, thread_elem, competition_slug, detail, title_link, thread_id) ==
    IF title_link = 0 THEN None
    ELSE IF ~thread_id.matched THEN None
    ELSE [id |-> thread_id.group,
          title |-> Strip(get_text(soup, title_link)),
          author |-> _extract_thread_author(soup, thread_elem),
          replyCount |-> _extract_reply_count(soup, thread_elem),
          voteCount |-> _extract_vote_count(soup, thread_elem),
          url |-> ThreadUrl(competition_slug, thread_id.group),
          posts |-> scrape_thread_posts(detail, DefaultMaxPosts)]

WithLink(soup, thread_elem, competition_slug, detail, title_link) ==
    ThreadRecord(soup, thread_elem, competition_slug, detail, title_link,
                 LinkId(soup, title_link))

_extract_thread_info(soup, thread_elem, competition_slug, detail) ==
    WithLink(soup, thread_elem, competition_slug, detail,
             ThreadTitleLink(soup, thread_elem))

\* whether the assembler issues the detail fetch for this fragment
FetchesDetail(soup, thread_elem) ==
    LinkId(soup, ThreadTitleLink(soup, thread_elem)).matched

(***************************************************************************)
(* The discussion listing.                                                 *)
(***************************************************************************)
thread_selectors == <<
    <<Sel("div", "", "", "discussion-topic", "")>>,
    <<Sel("div", "", "", "topic-item", "")>>,
    <<Sel("", "sc-discussion-topic", "", "", "")>>,
    <<Sel("tr", "sc-topic-row", "", "", "")>>,
    <<Sel("div", "topic-item", "", "", "")>>,
    <<Sel("tr", "topic-row", "", "", "")>>,
    <<Sel("div", "", "topic", "", "")>>,
    <<Sel("tr", "", "topic", "", "")>>,
    <<Sel("div", "", "discussion", "", "")>>,
    <<Sel("a", "", "", "", "/discussion/")>>,
    <<Sel("", "sc-fzplWN", "", "", "")>>,
    <<Sel("", "sc-fzoyAV", "", "", "")>>,
    <<Sel("li", "", "topic", "", "")>> >>

\* [link.find_parent() for link in links]: the parents, one per link
RECURSIVE ParentsOf(_, _)
ParentsOf(soup, links) ==
    IF links = <<>> THEN <<>>
    ELSE <<soup[Head(links)].parent>> \o ParentsOf(soup, Tail(links))

\* the elements of the listing taken as thread fragments: the first
\* selector with a match, else the class search, else the parents of the
\* discussion links (position 0 is the document itself)
\* the loop "for selector in selectors: elements = select(selector);
\* if elements: break": the first non-empty answer
FirstNonEmpty(lists) ==
    IF \A k \in 1..Len(lists) : lists[k] = <<>> THEN <<>>
    ELSE lists[Min({k \in 1..Len(lists) : lists[k] # <<>>})]

\* "if not elements: elements = ..." twice
Fallbacks(first, second, third) ==
    IF first # <<>> THEN first ELSE IF second # <<>> THEN second ELSE third

ThreadElements(soup) ==
    Fallbacks(
        FirstNonEmpty([k \in 1..Len(thread_selectors) |->
                          select(soup, 0, thread_selectors[k])]),
        find_all_class(soup, 0, {"div", "tr", "li"},
                       {"topic", "thread", "discussion"}),
        ParentsOf(soup, select(soup, 0, <<Sel("a", "", "", "", "/discussion/")>>)))

\* if data: list.append(data)
Kept(data) == IF data # None THEN <<data>> ELSE <<>>

\* the loop over the fragments: details[n] answers the detail GET of the
\* n-th fragment examined; a None is left out
RECURSIVE AssembleThreads(_, _, _, _, _)
AssembleThreads(soup, elems, n, competition_slug, details) ==
    IF n > Len(elems) THEN <<>>
    ELSE Kept(_extract_thread_info(soup, elems[n], competition_slug, details[n]))
         \o AssembleThreads(soup, elems, n + 1, competition_slug, details)

\* scrape_discussion_threads(..., max_threads: int = 50)
DefaultMaxThreads == 50

(***************************************************************************)
(* Fetching.  A world response w says what the outside does when a page is *)
(* asked for: w.get, w.source and w.http are "ok" or "raise" (driver.get,  *)
(* driver.page_source, session.get with raise_for_status), w.wait is       *)
(* "found" or "timeout" (WebDriverWait.until), w.soup is the document      *)
(* served.  A fetch answers whether it raised, the document, and the calls *)
(* it made on the driver, the session and the parser.                      *)
(***************************************************************************)
Call(op, raised) == [op |-> op, raised |-> raised]

Failed(calls) == [raised |-> TRUE, calls |-> calls]
Fetched(soup, calls) == [raised |-> FALSE, soup |-> soup, calls |-> calls]

\* session.get(url); raise_for_status(); BeautifulSoup(...)
PlainFetch(w) ==
    IF w.http = "raise" THEN Failed(<<Call("session.get", TRUE)>>)
    ELSE Fetched(w.soup, <<Call("session.get", FALSE), Call("BeautifulSoup", FALSE)>>)

\* if self.use_selenium and self.driver
UsesDriver(self) == self.use_selenium /\ self.driver = "open"

\* the overview's fetch: the wait is not guarded, so its timeout leaves the
\* try block like any other exception
OverviewFetch(self, w) ==
    IF UsesDriver(self)
    THEN IF w.get = "raise" THEN Failed(<<Call("driver.get", TRUE)>>)
         ELSE IF w.wait = "timeout"
              THEN Failed(<<Call("driver.get", FALSE), Call("wait", TRUE)>>)
         ELSE IF w.source = "raise"
              THEN Failed(<<Call("driver.get", FALSE), Call("wait", FALSE),
                            Call("driver.page_source", TRUE)>>)
         ELSE Fetched(w.soup, <<Call("driver.get", FALSE), Call("wait", FALSE),
                                Call("driver.page_source", FALSE),
                                Call("BeautifulSoup", FALSE)>>)
    ELSE PlainFetch(w)

\* the discussion listing's fetch: the wait, the scroll and the click sit
\* in an inner try whose except passes
DiscussionFetch(self, w) ==
    IF UsesDriver(self)
    THEN IF w.get = "raise" THEN Failed(<<Call("driver.get", TRUE)>>)
         ELSE LET waited == <<Call("driver.get", FALSE),
                              Call("wait", w.wait = "timeout")>>
              IN  IF w.source = "raise"
                  THEN Failed(waited \o <<Call("driver.page_source", TRUE)>>)
                  ELSE Fetched(w.soup,
                               waited \o <<Call("driver.page_source", FALSE),
                                           Call("BeautifulSoup", FALSE)>>)
    ELSE PlainFetch(w)

\* the notebook listing's fetch: the wait and the scroll sit in an inner
\* try whose except passes
NotebookFetch(self, w) ==
    IF UsesDriver(self)
    THEN IF w.get = "raise" THEN Failed(<<Call("driver.get", TRUE)>>)
         ELSE LET waited == <<Call("driver.get", FALSE),
                              Call("wait", w.wait = "timeout")>>
              IN  IF w.source = "raise"
                  THEN Failed(waited \o <<Call("driver.page_source", TRUE)>>)
                  ELSE Fetched(w.soup,
                               waited \o <<Call("driver.page_source", FALSE),
                                           Call("BeautifulSoup", FALSE)>>)
    ELSE PlainFetch(w)

(***************************************************************************)
(* The stages.  A stage answers its value, the calls it made, whether its   *)
(* except handler ran (error), and the exception that leaves the method    *)
(* (raised, "none" when it returns).                                       *)
(***************************************************************************)
Stage(value, calls, error) ==
    [value |-> value, calls |-> calls, error |-> error, raised |-> "none"]

\* a variant without the except clause: the exception leaves the method
OverviewOfUncaught(competition_slug, f) ==
    IF f.raised
    THEN [value |-> EmptyDict, calls |-> f.calls, error |-> FALSE,
          raised |-> "Exception"]
    ELSE Stage(OverviewRecord(competition_slug, f.soup), f.calls, FALSE)

OverviewOf(competition_slug, f) ==
    IF f.raised THEN Stage(EmptyDict, f.calls, TRUE)
    ELSE Stage(OverviewRecord(competition_slug, f.soup), f.calls, FALSE)

scrape_competition_overview(self, competition_slug, w) ==
    OverviewOf(competition_slug, OverviewFetch(self, w))

\* detail GETs with a failed one issued a second time
RECURSIVE DetailCallsRetried(_, _, _, _)
DetailCallsRetried(soup, elems, n, details) ==
    IF n > Len(elems) THEN <<>>
    ELSE (IF ~FetchesDetail(soup, elems[n]) THEN <<>>
          ELSE IF details[n].status = "raise"
               THEN <<Call("session.get", TRUE), Call("session.get", TRUE)>>
               ELSE <<Call("session.get", FALSE), Call("BeautifulSoup", FALSE)>>)
         \o DetailCallsRetried(soup, elems, n + 1, details)

\* the detail GETs of the fragments examined, in order
RECURSIVE DetailCalls(_, _, _, _)
DetailCalls(soup, elems, n, details) ==
    IF n > Len(elems) THEN <<>>
    ELSE (IF ~FetchesDetail(soup, elems[n]) THEN <<>>
          ELSE IF details[n].status = "raise"
               THEN <<Call("session.get", TRUE)>>
               ELSE <<Call("session.get", FALSE), Call("BeautifulSoup", FALSE)>>)
         \o DetailCalls(soup, elems, n + 1, details)

\* the loop over thread_elements[:max_threads]
ThreadsOf(soup, elems, competition_slug, details, calls) ==
    Stage(AssembleThreads(soup, elems, 1, competition_slug, details),
          calls \o DetailCalls(soup, elems, 1, details),
          FALSE)

DiscussionsOf(competition_slug, max_threads, details, f) ==
    IF f.raised THEN Stage(<<>>, f.calls, TRUE)
    ELSE ThreadsOf(f.soup, Take(ThreadElements(f.soup), max_threads),
                   competition_slug, details, f.calls)

scrape_discussion_threads(self, competition_slug, max_threads, w, details) ==
    DiscussionsOf(competition_slug, max_threads, details, DiscussionFetch(self, w))

(***************************************************************************)
(* The notebooks.                                                          *)
(***************************************************************************)
notebook_selectors == <<
    <<Sel("div", "", "", "code-item", "")>>,
    <<Sel("div", "", "", "kernel-item", "")>>,
    <<Sel("", "sc-code-item", "", "", "")>>,
    <<Sel("", "kernel-item", "", "", "")>>,
    <<Sel("div", "code-item", "", "", "")>>,
    <<Sel("div", "", "kernel", "", "")>>,
    <<Sel("div", "", "code", "", "")>>,
    <<Sel("a", "", "", "", "/code/")>>,
    <<Sel("article", "", "", "", "")>>,
    <<Sel("", "sc-fzplWN", "", "", "")>>,
    <<Sel("", "sc-fzoyAV", "", "", "")>> >>

NotebookElements(soup) ==
    Fallbacks(
        FirstNonEmpty([k \in 1..Len(notebook_selectors) |->
                          select(soup, 0, notebook_selectors[k])]),
        find_all_class(soup, 0, {"div", "article"},
                       {"kernel", "code", "notebook"}),
        ParentsOf(soup, select(soup, 0, <<Sel("a", "", "", "", "/code/")>>)))

notebook_title_link_selectors == <<
    <<Sel("a", "", "", "", "/code/")>>,
    <<Sel("", "kernel-title", "", "", ""), Sel("a", "", "", "", "")>>,
    <<Sel("", "code-title", "", "", ""), Sel("a", "", "", "", "")>>,
    <<Sel("h3", "", "", "", ""), Sel("a", "", "", "", "")>>,
    <<Sel("h4", "", "", "", ""), Sel("a", "", "", "", "")>> >>

notebook_author_selectors == <<
    <<Sel("", "kernel-author", "", "", "")>>,
    <<Sel("", "code-author", "", "", "")>>,
    <<Sel("", "", "", "author", "")>>,
    <<Sel("", "author", "", "", "")>> >>

notebook_vote_selectors == <<
    <<Sel("", "vote-count", "", "", "")>>,
    <<Sel("", "votes", "", "", "")>>,
    <<Sel("", "", "", "votes", "")>> >>

\* href.split('/')[-1]
LastSegment(href) ==
    LET sl == {i \in 1..Len(href) : Ch(href, i) = "/"}
    IN  IF sl = {} THEN href
        ELSE SubSeq(href, (CHOOSE m \in sl : \A n \in sl : n <= m) + 1, Len(href))

\* the first vote element found decides, with or without a number
VotesIn(number) == IF number = "" THEN 0 ELSE ToInt(number)

NotebookRecord(soup, notebook_elem, title_link, href) ==
    [id |-> IF href # "" THEN LastSegment(href) ELSE "unknown",
     title |-> Strip(get_text(soup, title_link)),
     author |-> TextOr(soup,
                       FirstElement(soup, notebook_elem, notebook_author_selectors),
                       "Unknown"),
     votes |-> VotesIn(NumberIn(soup, FirstElement(soup, notebook_elem,
                                                   notebook_vote_selectors))),
     url |-> IF href # "" /\ Ch(href, 1) = "/" THEN HOST \o href ELSE href,
     lastRunTime |-> "None",
     language |-> "unknown"]

NotebookWithLink(soup, notebook_elem, title_link) ==
    IF title_link = 0 THEN None
    ELSE NotebookRecord(soup, notebook_elem, title_link, soup[title_link].href)

_extract_notebook_info(soup, notebook_elem) ==
    NotebookWithLink(soup, notebook_elem,
                     FirstElement(soup, notebook_elem,
                                  notebook_title_link_selectors))

RECURSIVE AssembleNotebooks(_, _)
AssembleNotebooks(soup, elems) ==
    IF elems = <<>> THEN <<>>
    ELSE Kept(_extract_notebook_info(soup, Head(elems)))
         \o AssembleNotebooks(soup, Tail(elems))

NotebooksOf(max_notebooks, f) ==
    IF f.raised THEN Stage(<<>>, f.calls, TRUE)
    ELSE Stage(AssembleNotebooks(f.soup,
                                 Take(NotebookElements(f.soup), max_notebooks)),
               f.calls, FALSE)

_scrape_notebooks_from_web(self, competition_slug, max_notebooks, w) ==
    NotebooksOf(max_notebooks, NotebookFetch(self, w))

\* A provider object is a record holding the attributes the provider sent.
Attr(notebook, name, default) ==
    IF name \in DOMAIN notebook THEN notebook[name] ELSE default

\* notebook.ref, notebook.title, notebook.author are read directly: a
\* missing one raises AttributeError inside the try block
MapsCleanly(notebook) == {"ref", "title", "author"} \subseteq DOMAIN notebook

ApiNotebook(notebook) ==
    [id |-> notebook.ref,
     title |-> notebook.title,
     author |-> notebook.author,
     votes |-> Attr(notebook, "totalVotes", 0),
     url |-> HOST \o "/" \o notebook.ref,
     lastRunTime |-> Attr(notebook, "lastRunTime", "None"),
     language |-> Attr(notebook, "language", "unknown")]

RECURSIVE MapNotebooks(_)
MapNotebooks(l) ==
    IF l = <<>> THEN <<>> ELSE <<ApiNotebook(Head(l))>> \o MapNotebooks(Tail(l))

\* get_competition_notebooks(..., max_notebooks: int = 1000)
DefaultMaxNotebooks == 1000

\* the web result, after the calls already made
After(calls, web) == [web EXCEPT !.calls = calls \o web.calls]

\* api is the answer of kernels_list: [status |-> "raise"], or
\* [status |-> "ok", list |-> the provider objects].
\* The calls of the API attempt: kernels_list, then the read of an
\* attribute the provider left out, which raises inside the try block
ApiCalls(self, api) ==
    IF self.kaggle_api = "None" THEN <<>>
    ELSE IF api.status = "raise" THEN <<Call("kernels_list", TRUE)>>
    ELSE IF \A n \in 1..Len(api.list) : MapsCleanly(api.list[n])
         THEN <<Call("kernels_list", FALSE)>>
    ELSE <<Call("kernels_list", FALSE), Call("notebook.attribute", TRUE)>>

\* a variant that also goes to the web when the API lists nothing
ApiReturnsSomething(self, api) ==
    /\ self.kaggle_api # "None"
    /\ api.status = "ok"
    /\ api.list # <<>>
    /\ \A n \in 1..Len(api.list) : MapsCleanly(api.list[n])

\* the API attempt returned: the client is there, the call and the mapping
\* of every object went through
ApiReturns(self, api) ==
    /\ self.kaggle_api # "None"
    /\ api.status = "ok"
    /\ \A n \in 1..Len(api.list) : MapsCleanly(api.list[n])

\* an adapter path that keeps the records mapped before an object failed
get_competition_notebooks_kept(self, competition_slug, max_notebooks, api, w) ==
    IF self.kaggle_api # "None" /\ api.status = "ok"
    THEN Stage(MapNotebooks(SelectSeq(api.list, MapsCleanly)),
               ApiCalls(self, api), FALSE)
    ELSE After(ApiCalls(self, api),
               _scrape_notebooks_from_web(self, competition_slug, max_notebooks, w))

get_competition_notebooks(self, competition_slug, max_notebooks, api, w) ==
    IF ApiReturns(self, api)
    THEN Stage(MapNotebooks(api.list), ApiCalls(self, api), FALSE)
    ELSE After(ApiCalls(self, api),
               _scrape_notebooks_from_web(self, competition_slug, max_notebooks, w))

(***************************************************************************)
(* The pages and answers the outside serves in the model.                  *)
(***************************************************************************)
WithDatetime(e, d) == [e EXCEPT !.datetime = d]

\* an overview page in the current markup
OverviewFull == <<
    El("h1", "", "competition-title", "", " Titanic ", 0),
    El("div", "competition-description", "", "", "Predict survival", 0),
    El("div", "competition-timeline", "", "", "", 0),
    WithDatetime(El("time", "date", "", "", "", 3), "2030-01-01"),
    El("span", "prize-amount", "", "", " $10,000 ", 0),
    El("div", "evaluation-metric", "", "", "Accuracy", 0) >>

\* an overview page whose only known structure is a bare h1
OverviewBare == <<
    El("div", "page", "", "", "", 0),
    El("h1", "", "", "", " Titanic ", 1) >>

\* a page with none of the expected structures
Blank == << El("p", "", "", "", "Sign in", 0) >>

OverviewSoups == {OverviewFull, OverviewBare, Blank}

\* a listing with two fragments: a thread, and a "new topic" link
ListingTwo == <<
    El("div", "topic-item", "", "", "", 0),
    El("a", "", "", "/competitions/t/discussion/123", " Feature ideas ", 1),
    El("span", "author", "", "", "alice", 1),
    El("span", "reply-count", "", "", "5 replies", 1),
    El("div", "topic-item", "", "", "", 0),
    El("a", "", "", "/competitions/t/discussion/new", "New topic", 5) >>

\* a listing made of bare links: the links themselves are the fragments
ListingLinks == <<
    El("a", "", "", "/competitions/t/discussion/45", "Leak?", 0),
    El("a", "", "", "/competitions/t/discussion/46", "", 0) >>

DiscussionSoups == {ListingTwo, ListingLinks, Blank}

ThreadPage == <<
    El("div", "post", "", "", "", 0),
    El("span", "author", "", "", " bob ", 1),
    El("div", "content", "", "", "Try trees", 1) >>

DetailResponses == {RAISE, Ok(ThreadPage)}

\* the most fragments a listing of the model holds
MaxFragments == 2

CodeListing == <<
    El("div", "kernel-item", "", "", "", 0),
    El("a", "", "", "/code/alice/nb1", " Starter ", 1),
    El("span", "kernel-author", "", "", "alice", 1),
    El("span", "vote-count", "", "", "12 votes", 1),
    El("div", "kernel-item", "", "", "no link here", 0) >>

\* a code listing whose only fragment has its title in an h3, the link
\* without an href
CodeListingBare == <<
    El("div", "kernel-item", "", "", "", 0),
    El("h3", "", "", "", "", 1),
    El("a", "", "", "", " EDA ", 2) >>

NotebookSoups == {CodeListing, CodeListingBare, Blank}

KernelFull == [ref |-> "alice/nb1", title |-> "Starter", author |-> "alice",
               totalVotes |-> 12, lastRunTime |-> "2029-12-31", language |-> "python"]
KernelSparse == [ref |-> "bob/nb2", title |-> "EDA", author |-> "bob"]
KernelBroken == [ref |-> "eve/nb3", author |-> "eve"]

ApiResponses == {RAISE,
                 [status |-> "ok", list |-> <<>>],
                 [status |-> "ok", list |-> <<KernelFull, KernelSparse>>],
                 [status |-> "ok", list |-> <<KernelFull, KernelBroken>>]}

World(get, wait, source, http, soup) ==
    [get |-> get, wait |-> wait, source |-> source, http |-> http, soup |-> soup]

\* what the outside can answer to the fetch the engine makes in its mode
Worlds(self, soups) ==
    IF UsesDriver(self)
    THEN {World("raise", "found", "ok", "ok", Blank)}
         \cup {World("ok", wt, "raise", "ok", Blank) : wt \in {"found", "timeout"}}
         \cup {World("ok", wt, "ok", "ok", sp) : wt \in {"found", "timeout"}, sp \in soups}
    ELSE {World("ok", "found", "ok", "raise", Blank)}
         \cup {World("ok", "found", "ok", "ok", sp) : sp \in soups}

\* input URLs: the host followed by up to MaxSegs path segments
Segments == {"c", "competitions", "titanic", ""}

PathSeqs == UNION {[1..n -> Segments] : n \in 1..MaxSegs}

RECURSIVE Joined(_)
Joined(segs) == IF segs = <<>> THEN "" ELSE "/" \o Head(segs) \o Joined(Tail(segs))

UrlOf(segs) == HOST \o Joined(segs)

Urls == {UrlOf(segs) : segs \in PathSeqs}

(***************************************************************************)
(* The engine and one caller.                                              *)
(*   KAGGLE_API_AVAILABLE  whether the import of the API library worked    *)
(*   self      the engine's fields kaggle_api, use_selenium, driver        *)
(*   built     what the constructor did: the authentications and the       *)
(*             browser initialisations it attempted, and their failures    *)
(*   pc        where the caller (the script at the end of the file: one    *)
(*             engine, one scrape) stands: "new", "idle", the stage about  *)
(*             to run inside scrape_all_competition_data, "done", "gone"   *)
(*   competition_url .. result   the arguments and locals of               *)
(*             scrape_all_competition_data                                 *)
(*   raised    the exception the last call let through, "none" if it       *)
(*             returned                                                    *)
(*   calls     the calls of the current scrape on the driver, the session, *)
(*             the parser and the API client, each with its stage          *)
(*   errors    the stages of the current scrape whose except handler ran   *)
(*   stages    the stages of the current scrape, each with the time at     *)
(*             which it finished                                           *)
(*   now       the time elapsed in the current scrape                      *)
(*   arg, ret  the argument and the result of a function applied alone     *)
(***************************************************************************)
VARIABLES KAGGLE_API_AVAILABLE, self, built, pc, competition_url,
          competition_slug, competition_data, discussion_threads, notebooks,
          result, raised, calls, errors, stages, now, arg, ret

vars == <<KAGGLE_API_AVAILABLE, self, built, pc, competition_url,
          competition_slug, competition_data, discussion_threads, notebooks,
          result, raised, calls, errors, stages, now, arg, ret>>

engine == <<KAGGLE_API_AVAILABLE, self, built>>
locals == <<competition_url, competition_slug, competition_data,
            discussion_threads, notebooks, result>>
pure == <<arg, ret>>

Unset == [unset |-> TRUE]

NoEngine == [kaggle_api |-> "None", use_selenium |-> FALSE, driver |-> "None"]
NothingBuilt == [auth |-> 0, auth_failed |-> FALSE,
                 driver_init |-> 0, driver_failed |-> FALSE]

InitCommon ==
    /\ self = NoEngine
    /\ built = NothingBuilt
    /\ competition_url = ""
    /\ competition_slug = ""
    /\ competition_data = EmptyDict
    /\ discussion_threads = <<>>
    /\ notebooks = <<>>
    /\ result = Unset
    /\ raised = "none"
    /\ calls = <<>>
    /\ errors = {}
    /\ stages = <<>>
    /\ now = 0

Init ==
    /\ KAGGLE_API_AVAILABLE \in BOOLEAN
    /\ pc = "new"
    /\ arg = Unset
    /\ ret = Unset
    /\ InitCommon

\* a variant whose except clause does not reset kaggle_api
_init_kaggle_api_client_kept(available, auth_ok) ==
    IF ~available THEN [kaggle_api |-> "None", auth |-> 0, auth_failed |-> FALSE]
    ELSE [kaggle_api |-> "client", auth |-> 1, auth_failed |-> ~auth_ok]

\* _init_kaggle_api: no attempt without the library; else one
\* authenticate(), whose failure leaves kaggle_api at None
_init_kaggle_api(available, auth_ok) ==
    IF ~available THEN [kaggle_api |-> "None", auth |-> 0, auth_failed |-> FALSE]
    ELSE IF auth_ok THEN [kaggle_api |-> "client", auth |-> 1, auth_failed |-> FALSE]
    ELSE [kaggle_api |-> "None", auth |-> 1, auth_failed |-> TRUE]

\* a variant whose except clause leaves use_selenium set
_init_selenium_driver_flag_kept(driver_ok) ==
    IF driver_ok THEN [driver |-> "open", use_selenium |-> TRUE, failed |-> FALSE]
    ELSE [driver |-> "None", use_selenium |-> TRUE, failed |-> TRUE]

\* _init_selenium_driver: a failure clears driver and use_selenium
_init_selenium_driver(driver_ok) ==
    IF driver_ok THEN [driver |-> "open", use_selenium |-> TRUE, failed |-> FALSE]
    ELSE [driver |-> "None", use_selenium |-> FALSE, failed |-> TRUE]

\* KaggleCompetitionScraper(use_selenium)
Construct ==
    /\ pc = "new"
    /\ \E use_selenium \in BOOLEAN, auth_ok \in BOOLEAN, driver_ok \in BOOLEAN :
          LET api == _init_kaggle_api(KAGGLE_API_AVAILABLE, auth_ok)
              drv == IF use_selenium THEN _init_selenium_driver(driver_ok)
                     ELSE [driver |-> "None", use_selenium |-> FALSE,
                           failed |-> FALSE]
          IN  /\ self' = [kaggle_api |-> api.kaggle_api,
                          use_selenium |-> drv.use_selenium,
                          driver |-> drv.driver]
              /\ built' = [auth |-> api.auth, auth_failed |-> api.auth_failed,
                           driver_init |-> IF use_selenium THEN 1 ELSE 0,
                           driver_failed |-> drv.failed]
    /\ pc' = "idle"
    /\ UNCHANGED <<KAGGLE_API_AVAILABLE, locals, raised, calls, errors, stages,
                   now, pure>>

Tagged(stage, cs) == [n \in 1..Len(cs) |-> [stage |-> stage, op |-> cs[n].op,
                                             raised |-> cs[n].raised]]

\* the stage's "Error ..." message, when its except handler ran
Noted(errs, stage, error) == IF error THEN errs \cup {stage} ELSE errs

Done(stage, at) == [stage |-> stage, at |-> at]

\* a variant that lists the notebooks before the discussions
StageAfterSwapped(stage) ==
    CASE stage = "IDENTIFY" -> "OVERVIEW"
      [] stage = "OVERVIEW" -> "NOTEBOOKS"
      [] stage = "NOTEBOOKS" -> "DISCUSSIONS"
      [] stage = "DISCUSSIONS" -> "ASSEMBLED"

\* the stage scrape_all_competition_data runs after the given one
StageAfter(stage) ==
    CASE stage = "IDENTIFY" -> "OVERVIEW"
      [] stage = "OVERVIEW" -> "DISCUSSIONS"
      [] stage = "DISCUSSIONS" -> "NOTEBOOKS"
      [] stage = "NOTEBOOKS" -> "ASSEMBLED"

\* scrape_all_competition_data has no try block: an exception of a call
\* it makes ends it
Onward(stage, exception) ==
    IF exception = "none" THEN StageAfter(stage) ELSE "done"

\* what the identifier extraction leaves behind: the slug and the next
\* stage, or the exception and the end of the call
AfterSlug(got) ==
    IF got.raised = "none"
    THEN [slug |-> got.value, raised |-> "none", pc |-> Onward("IDENTIFY", "none")]
    ELSE [slug |-> "", raised |-> got.raised, pc |-> Onward("IDENTIFY", got.raised)]

Identified(url) == AfterSlug(extract_competition_slug(url))

\* scrape_all_competition_data(competition_url), up to the slug
Identify ==
    /\ pc = "idle"
    /\ \E url \in Urls :
          \E id \in {Identified(url)} :
              /\ competition_url' = url
              /\ competition_slug' = id.slug
              /\ raised' = id.raised
              /\ pc' = id.pc
    /\ now' = now + 1
    /\ stages' = Append(stages, Done("IDENTIFY", now + 1))
    /\ UNCHANGED <<engine, competition_data, discussion_threads, notebooks,
                   result, calls, errors, pure>>

\* competition_data = self.scrape_competition_overview(competition_slug)
Overview ==
    /\ pc = "OVERVIEW"
    /\ \E w \in Worlds(self, OverviewSoups) :
          \E st \in {scrape_competition_overview(self, competition_slug, w)} :
              /\ competition_data' = st.value
              /\ calls' = calls \o Tagged("OVERVIEW", st.calls)
              /\ errors' = Noted(errors, "OVERVIEW", st.error)
              /\ raised' = st.raised
              /\ pc' = Onward("OVERVIEW", st.raised)
    /\ now' = now + 1
    /\ stages' = Append(stages, Done("OVERVIEW", now + 1))
    \* the url is not read again
    /\ competition_url' = ""
    /\ UNCHANGED <<engine, competition_slug, discussion_threads, notebooks,
                   result, pure>>

\* discussion_threads = self.scrape_discussion_threads(competition_slug)
Discussions ==
    /\ pc = "DISCUSSIONS"
    /\ \E w \in Worlds(self, DiscussionSoups),
          details \in [1..MaxFragments -> DetailResponses] :
          \E st \in {scrape_discussion_threads(self, competition_slug,
                                                DefaultMaxThreads, w, details)} :
              /\ discussion_threads' = st.value
              /\ calls' = calls \o Tagged("DISCUSSIONS", st.calls)
              /\ errors' = Noted(errors, "DISCUSSIONS", st.error)
              /\ raised' = st.raised
              /\ pc' = Onward("DISCUSSIONS", st.raised)
    /\ now' = now + 1
    /\ stages' = Append(stages, Done("DISCUSSIONS", now + 1))
    /\ UNCHANGED <<engine, competition_url, competition_slug, competition_data,
                   notebooks, result, pure>>

\* notebooks = self.get_competition_notebooks(competition_slug)
Notebooks ==
    /\ pc = "NOTEBOOKS"
    /\ \E w \in Worlds(self, NotebookSoups), api \in ApiResponses :
          \E st \in {get_competition_notebooks(self, competition_slug,
                                                DefaultMaxNotebooks, api, w)} :
              /\ notebooks' = st.value
              /\ calls' = calls \o Tagged("NOTEBOOKS", st.calls)
              /\ errors' = Noted(errors, "NOTEBOOKS", st.error)
              /\ raised' = st.raised
              /\ pc' = Onward("NOTEBOOKS", st.raised)
    /\ now' = now + 1
    /\ stages' = Append(stages, Done("NOTEBOOKS", now + 1))
    /\ UNCHANGED <<engine, competition_url, competition_slug, competition_data,
                   discussion_threads, result, pure>>

\* the dictionary the call returns; clock is datetime.now()
Assembled(competition, threads, books, clock) ==
    [competition |-> competition,
     discussionThreads |-> threads,
     notebooks |-> books,
     scrapedAt |-> clock]

\* result = {...}; return result
Assemble ==
    /\ pc = "ASSEMBLED"
    /\ result' = Assembled(competition_data, discussion_threads, notebooks, now)
    /\ stages' = Append(stages, Done("ASSEMBLED", now))
    /\ pc' = "done"
    /\ UNCHANGED <<engine, competition_url, competition_slug, competition_data,
                   discussion_threads, notebooks, raised, calls, errors, now,
                   pure>>

\* an engine dropped with its driver left as it is
DiscardWithoutQuit ==
    /\ pc \in {"idle", "done"}
    /\ pc' = "gone"
    /\ UNCHANGED <<KAGGLE_API_AVAILABLE, self, built, locals, raised, calls,
                   errors, stages, now, pure>>

\* __del__: quit the driver if there is one
Discard ==
    /\ pc \in {"idle", "done"}
    /\ self' = [self EXCEPT !.driver = IF @ = "open" THEN "quit" ELSE @]
    /\ pc' = "gone"
    /\ UNCHANGED <<KAGGLE_API_AVAILABLE, built, locals, raised, calls, errors,
                   stages, now, pure>>

Next ==
    \/ Construct
    \/ Identify
    \/ Overview
    \/ Discussions
    \/ Notebooks
    \/ Assemble
    \/ Discard

Spec == Init /\ [][Next]_vars

\* Every step of the engine's life ends: a constructor and a stage return
\* or raise, and the engine, held only by a local of its caller, is
\* finalized when that caller's frame is left.
SpecLive == Spec /\ WF_vars(Next)

(***************************************************************************)
(* extract_competition_slug applied alone, then applied again to the       *)
(* overview URL built from its answer.                                     *)
(*   arg  [segs |-> the path segments of the url]                          *)
(*   ret  [first |-> the answer], then also [again |-> the second answer]  *)
(***************************************************************************)
InitSlug ==
    /\ KAGGLE_API_AVAILABLE = FALSE
    /\ pc = "slug"
    /\ arg \in {[segs |-> segs] : segs \in PathSeqs}
    /\ ret = Unset
    /\ InitCommon

\* competition_slug = extract_competition_slug(url)
ExtractSlug ==
    /\ pc = "slug"
    /\ ret' = [first |-> extract_competition_slug(UrlOf(arg.segs))]
    /\ pc' = "slug.first"
    /\ UNCHANGED <<engine, locals, raised, calls, errors, stages, now, arg>>

\* extract_competition_slug of the url scrape_competition_overview builds
ExtractSlugAgain ==
    /\ pc = "slug.first"
    /\ ret.first.raised = "none"
    /\ ret' = [first |-> ret.first,
               again |-> extract_competition_slug(OverviewUrl(ret.first.value))]
    /\ pc' = "slug.again"
    /\ UNCHANGED <<engine, locals, raised, calls, errors, stages, now, arg>>

NextSlug ==
    \/ ExtractSlug
    \/ ExtractSlugAgain

SpecSlug == InitSlug /\ [][NextSlug]_vars

(***************************************************************************)
(* _extract_thread_info applied alone to one fragment.                     *)
(*   arg  [soup |-> the document, elem |-> the fragment,                   *)
(*         detail |-> the answer to the GET of the thread's page]          *)
(*   ret  the record, or None                                              *)
(***************************************************************************)
\* the most links inside a fragment
MaxLinks == 2

LinkHrefs == {"/competitions/t/discussion/123",
              "/competitions/t/discussion/new",
              "/discussion/x/discussion/45x",
              "/competitions/t/code/9",
              ""}
LinkTexts == {"", " Ideas "}
LinkTestids == {"", "discussion-link"}

\* the links a fragment may hold, each a child of the fragment
FragmentLinks ==
    {El("a", "", tid, h, t, 1) : tid \in LinkTestids, h \in LinkHrefs, t \in LinkTexts}

\* a container with up to MaxLinks links, or a bare link (which is what
\* the listing's selector a[href*="/discussion/"] hands to the assembler)
Fragments ==
    {<<El("div", "topic-item", "", "", "", 0)>> \o ls :
        ls \in UNION {[1..n -> FragmentLinks] : n \in 0..MaxLinks}}
    \cup {<<El("a", "", "", h, t, 0)>> : h \in LinkHrefs, t \in LinkTexts}

InitThread ==
    /\ KAGGLE_API_AVAILABLE = FALSE
    /\ pc = "thread"
    /\ arg \in {[soup |-> f, elem |-> 1, detail |-> d] :
                   f \in Fragments, d \in DetailResponses}
    /\ ret = Unset
    /\ InitCommon

\* thread_data = self._extract_thread_info(thread_elem, competition_slug)
ExtractThreadInfo ==
    /\ pc = "thread"
    /\ ret' = _extract_thread_info(arg.soup, arg.elem, "t", arg.detail)
    /\ pc' = "thread.done"
    /\ UNCHANGED <<engine, locals, raised, calls, errors, stages, now, arg>>

NextThread == ExtractThreadInfo

SpecThread == InitThread /\ [][NextThread]_vars

(***************************************************************************)
(* The functions of the engine applied alone, one application per run.     *)
(*   arg  [fn |-> the function, ...its arguments and the answers of the    *)
(*         outside...]                                                     *)
(*   ret  what the function returns                                        *)
(***************************************************************************)
NotebookHrefs == {"/code/alice/nb1", "/code/", "alice/code/nb2", "/alice/nb3", ""}

\* a fragment whose link is its child, one whose link sits in an h3, and
\* one without a link
NotebookFragments ==
    {<<El("div", "kernel-item", "", "", "", 0),
       El("a", "", "", h, t, 1)>> : h \in NotebookHrefs, t \in LinkTexts}
    \cup {<<El("div", "kernel-item", "", "", "", 0),
            El("h3", "", "", "", "", 1),
            El("a", "", "", h, t, 2)>> : h \in NotebookHrefs, t \in LinkTexts}
    \cup {<<El("div", "kernel-item", "", "", "no link here", 0)>>}

NotebookArgs == {[fn |-> "notebook", soup |-> f, elem |-> 1] : f \in NotebookFragments}

\* the largest limit a caller passes in the model
MaxLimit == 2

\* engines after construction: with or without a client, with or without
\* a driver
Engines ==
    {[kaggle_api |-> a, use_selenium |-> d, driver |-> IF d THEN "open" ELSE "None"] :
        a \in {"None", "client"}, d \in BOOLEAN}

\* get_competition_notebooks(competition_slug, max_notebooks)
NotebooksArgs ==
    UNION {{[fn |-> "notebooks", self |-> e, max_notebooks |-> m, api |-> a, w |-> w] :
               m \in 0..MaxLimit, a \in ApiResponses, w \in Worlds(e, NotebookSoups)} :
           e \in Engines}

\* a listing whose first fragment is the "new topic" link
ListingNewFirst == <<
    El("div", "topic-item", "", "", "", 0),
    El("a", "", "", "/competitions/t/discussion/new", "New topic", 1),
    El("div", "topic-item", "", "", "", 0),
    El("a", "", "", "/competitions/t/discussion/7", "Welcome", 3) >>

\* scrape_discussion_threads(competition_slug, max_threads)
\* a thread page with three posts
ThreadPageLong == <<
    El("div", "post", "", "", "first", 0),
    El("div", "post", "", "", "second", 0),
    El("div", "post", "", "", "third", 0) >>

\* max_posts is the value the caller holds for the posts of a thread
\* (scrape_competition's parameter in streamlit_app.py); the call it makes
\* hands over max_threads only
\* a listing whose row holds a second, inner row around the thread's link
ListingNested == <<
    El("div", "topic-item", "", "", "", 0),
    El("div", "topic-item", "", "", "", 1),
    El("a", "", "", "/competitions/t/discussion/7", "Welcome", 2) >>

ThreadsArgs ==
    UNION {{[fn |-> "threads", self |-> e, max_threads |-> m, max_posts |-> p,
             w |-> w, details |-> d] :
               m \in 0..MaxLimit, p \in 1..MaxLimit,
               w \in Worlds(e, DiscussionSoups \cup {ListingNewFirst, ListingNested}),
               d \in [1..MaxFragments -> DetailResponses \cup {Ok(ThreadPageLong)}]} :
           e \in {e2 \in Engines : e2.kaggle_api = "None"}}

\* the most elements below the fragment in a page handed to the cascades
MaxElems == 2

Kind(tag, class, testid) == [tag |-> tag, class |-> class, testid |-> testid]

\* per field, two elements that two different queries of its cascade find;
\* and an element no query finds
CascadeFields == {
    {Kind("h1", "", "competition-title"), Kind("h1", "sc-fFeiMQ", "")},
    {Kind("div", "", "competition-description"), Kind("div", "", "overview-description")},
    {Kind("span", "", "competition-prize"), Kind("span", "", "prize")},
    {Kind("div", "", "competition-evaluation"), Kind("div", "evaluation-metric", "")},
    {Kind("span", "author", ""), Kind("span", "username", "")},
    {Kind("span", "reply-count", ""), Kind("span", "posts-count", "")},
    {Kind("span", "vote-count", ""), Kind("span", "upvotes", "")},
    {Kind("div", "content", "")},
    {Kind("p", "", "")} }

CascadeTexts == {"", "7 up", "9 down"}

PaletteOf(kinds) == {El(k.tag, k.class, k.testid, "", t, 1) : k \in kinds, t \in CascadeTexts}

\* a fragment with up to MaxElems elements of the palette below it
SoupsFrom(palette) ==
    {<<El("div", "topic-item", "", "", "", 0)>> \o below :
        below \in UNION {[1..n -> palette] : n \in 0..MaxElems}}

CascadeArgs ==
    {[fn |-> "cascade", soup |-> s, elem |-> 1] :
        s \in UNION {SoupsFrom(PaletteOf(kinds)) : kinds \in CascadeFields}}

PartArgs == NotebookArgs \cup NotebooksArgs \cup ThreadsArgs \cup CascadeArgs

InitParts ==
    /\ KAGGLE_API_AVAILABLE = FALSE
    /\ arg \in PartArgs
    /\ pc = arg.fn
    /\ ret = Unset
    /\ InitCommon

\* notebook_data = self._extract_notebook_info(notebook_elem)
ExtractNotebookInfo ==
    /\ pc = "notebook"
    /\ ret' = _extract_notebook_info(arg.soup, arg.elem)
    /\ pc' = "notebook.done"
    /\ UNCHANGED <<engine, locals, raised, calls, errors, stages, now, arg>>

\* notebooks = self.get_competition_notebooks(competition_slug, max_notebooks)
GetNotebooks ==
    /\ pc = "notebooks"
    /\ ret' = get_competition_notebooks(arg.self, "t", arg.max_notebooks,
                                        arg.api, arg.w)
    /\ pc' = "notebooks.done"
    /\ UNCHANGED <<engine, locals, raised, calls, errors, stages, now, arg>>

\* threads = self.scrape_discussion_threads(competition_slug, max_threads)
ScrapeThreads ==
    /\ pc = "threads"
    /\ ret' = scrape_discussion_threads(arg.self, "t", arg.max_threads,
                                        arg.w, arg.details)
    /\ pc' = "threads.done"
    /\ UNCHANGED <<engine, locals, raised, calls, errors, stages, now, arg>>

\* the field cascades of the overview on the page, those of a thread on
\* the fragment
RunCascades ==
    /\ pc = "cascade"
    /\ ret' = [title |-> _extract_title(arg.soup),
               description |-> _extract_description(arg.soup),
               reward |-> _extract_reward(arg.soup),
               evaluation |-> _extract_evaluation(arg.soup),
               author |-> _extract_thread_author(arg.soup, arg.elem),
               replyCount |-> _extract_reply_count(arg.soup, arg.elem),
               voteCount |-> _extract_vote_count(arg.soup, arg.elem)]
    /\ pc' = "cascade.done"
    /\ UNCHANGED <<engine, locals, raised, calls, errors, stages, now, arg>>

NextParts ==
    \/ RunCascades
    \/ ExtractNotebookInfo
    \/ GetNotebooks
    \/ ScrapeThreads

SpecParts == InitParts /\ [][NextParts]_vars

(***************************************************************************)
(* Properties.                                                             *)
(***************************************************************************)
FetchStages == {"OVERVIEW", "DISCUSSIONS", "NOTEBOOKS"}

\* the stage has finished in the current scrape
Ran(stage) == \E n \in 1..Len(stages) : stages[n].stage = stage

\* the time at which the stage finished
FinishOf(stage) == stages[CHOOSE n \in 1..Len(stages) : stages[n].stage = stage].at

\* the positions in calls of the stage's calls
CallsOf(stage) == {n \in 1..Len(calls) : calls[n].stage = stage}

\* the stage made at least one call, and its first one was on one of ops
FirstCallIn(stage, ops) ==
    /\ CallsOf(stage) # {}
    /\ calls[Min(CallsOf(stage))].op \in ops

\* page fetches, calls on the browser, calls of the API attempt
TransportOps == {"driver.get", "session.get"}
DriverOps == {"driver.get", "wait", "driver.page_source"}
ApiOps == {"kernels_list", "notebook.attribute"}

Returned == pc \in {"done", "gone"} /\ Ran("IDENTIFY")

\* C1: once the identifier has been extracted, scrape_all_competition_data
\* returns an assembled result whatever fails in the three stages: no
\* exception other than the identifier's ValueError ever leaves the call,
\* all three stages have run when it returns, a stage whose handler caught
\* an exception contributes the empty section, and no stage blocks.
BulkheadHolds ==
    /\ raised \in {"none", "ValueError"}
    /\ raised = "ValueError" => \A s \in FetchStages : ~Ran(s)
    /\ (Returned /\ raised = "none") =>
          /\ result # Unset
          /\ \A s \in FetchStages : Ran(s)
          /\ "OVERVIEW" \in errors => result.competition = EmptyDict
          /\ "DISCUSSIONS" \in errors => result.discussionThreads = <<>>
          /\ "NOTEBOOKS" \in errors => result.notebooks = <<>>
    /\ pc \in FetchStages \cup {"ASSEMBLED"} => ENABLED Next

\* the overview and the notebooks failed, the discussions still delivered
BulkheadWitness ==
    /\ pc = "done"
    /\ result # Unset
    /\ {"OVERVIEW", "NOTEBOOKS"} \subseteq errors
    /\ result.competition = EmptyDict
    /\ result.discussionThreads # <<>>

\* the url has no "/c/" and no "/competitions/" followed by a character
\* other than "/"
Unrecognized(url) ==
    \A lit \in {"/c/", "/competitions/"} :
        \A i \in 1..Len(url) :
            MatchAt(url, lit, i) =>
                \/ i + Len(lit) > Len(url)
                \/ Ch(url, i + Len(lit)) = "/"

\* C2: for a URL that matches neither pattern the scrape ends with
\* ValueError right after the identifier extraction: no call on the
\* browser, the HTTP session or the API client is made, no later stage
\* runs and no result is built.
UnrecognizedUrlIsFatal ==
    (competition_url # "" /\ Unrecognized(competition_url)) =>
        /\ raised = "ValueError"
        /\ pc \in {"done", "gone"}
        /\ calls = <<>>
        /\ \A s \in FetchStages \cup {"ASSEMBLED"} : ~Ran(s)
        /\ result = Unset

UnrecognizedUrlWitness ==
    /\ pc = "done"
    /\ competition_url = HOST \o "/titanic/c/"
    /\ Unrecognized(competition_url)
    /\ raised = "ValueError"

OverviewFields == {"id", "title", "description", "timeline", "reward",
                   "evaluation", "url"}

\* C3: the result always has the keys competition, discussionThreads,
\* notebooks and scrapedAt, and its competition record always has every
\* overview field, also when the overview stage failed.
SchemaComplete ==
    result # Unset =>
        /\ DOMAIN result = {"competition", "discussionThreads", "notebooks",
                            "scrapedAt"}
        /\ OverviewFields \subseteq DOMAIN result.competition

\* C4: for a url with a segment after "c" or "competitions" the answer is
\* such a segment, and extracting again from the overview URL built from
\* the answer gives the same answer.
SlugExactAndIdempotent ==
    pc = "slug.again" =>
        /\ \E k \in 1..(Len(arg.segs) - 1) :
              /\ arg.segs[k] \in {"c", "competitions"}
              /\ arg.segs[k + 1] = ret.first.value
        /\ ret.again = ret.first

StageOrder == <<"IDENTIFY", "OVERVIEW", "DISCUSSIONS", "NOTEBOOKS", "ASSEMBLED">>

Position(stage) == CHOOSE k \in 1..Len(StageOrder) : StageOrder[k] = stage

\* C5: the stages finish in the order IDENTIFY, OVERVIEW, DISCUSSIONS,
\* NOTEBOOKS, ASSEMBLED, each once and each after the one before it; the
\* calls of a stage all come after the calls of the stages before it and
\* belong to a stage that has been entered in order; the stage about to
\* run is the next of the order; and scrapedAt is a time not before the
\* notebook stage finished.
StagesInOrder ==
    /\ Len(stages) <= Len(StageOrder)
    /\ \A n \in 1..Len(stages) : stages[n].stage = StageOrder[n]
    /\ \A n \in 1..(Len(stages) - 1) : stages[n].at <= stages[n + 1].at
    /\ \A n \in 1..(Len(stages) - 1) :
          stages[n + 1].stage \in FetchStages => stages[n].at < stages[n + 1].at
    /\ \A m, n \in 1..Len(calls) :
          m < n => Position(calls[m].stage) <= Position(calls[n].stage)
    /\ \A n \in 1..Len(calls) : Ran(calls[n].stage)
    /\ pc \in FetchStages \cup {"ASSEMBLED"} => pc = StageOrder[Len(stages) + 1]
    /\ result # Unset =>
          /\ Ran("NOTEBOOKS")
          /\ result.scrapedAt >= FinishOf("NOTEBOOKS")
          /\ result.notebooks = notebooks

StagesInOrderWitness ==
    /\ pc = "done"
    /\ Len(stages) = Len(StageOrder)
    /\ \A s \in FetchStages : CallsOf(s) # {}
    /\ result # Unset
    /\ result.scrapedAt = FinishOf("NOTEBOOKS")

\* C6 as stated: a stage fetches a page only when the adapter is
\* unavailable.
EachStagePrefersApi ==
    \A n \in 1..Len(calls) :
        (calls[n].stage \in FetchStages /\ calls[n].op \in TransportOps)
            => self.kaggle_api = "None"

\* C6, amended: only the notebook stage uses the API client.  With a
\* client it calls the API first, and it fetches the notebook page exactly
\* when there is no client or the API attempt raised; the overview and
\* the discussion stages start with a page fetch whether or not there is
\* a client, and never call the API.
OnlyNotebooksPreferApi ==
    /\ \A n \in 1..Len(calls) :
          calls[n].op \in ApiOps => calls[n].stage = "NOTEBOOKS"
    /\ \A s \in {"OVERVIEW", "DISCUSSIONS"} :
          Ran(s) => FirstCallIn(s, TransportOps)
    /\ Ran("NOTEBOOKS") =>
          /\ self.kaggle_api # "None" => FirstCallIn("NOTEBOOKS", {"kernels_list"})
          /\ (\E n \in CallsOf("NOTEBOOKS") : calls[n].op \in TransportOps)
                <=> \/ self.kaggle_api = "None"
                    \/ \E n \in CallsOf("NOTEBOOKS") :
                          calls[n].op \in ApiOps /\ calls[n].raised

\* with a client: the overview fetched its page, the notebooks came from
\* the API alone
OnlyNotebooksPreferApiWitness ==
    /\ pc = "done"
    /\ self.kaggle_api = "client"
    /\ FirstCallIn("OVERVIEW", TransportOps)
    /\ FirstCallIn("DISCUSSIONS", TransportOps)
    /\ \A n \in CallsOf("NOTEBOOKS") : calls[n].op = "kernels_list"
    /\ result # Unset
    /\ result.notebooks # <<>>

\* C7: after a failed browser initialisation use_selenium is false and
\* there is no driver in every later state, the initialisation was
\* attempted once, no call is ever made on a browser, and the overview,
\* the discussion list and the notebook list (when it is fetched) are
\* fetched with session.get.
PlainModeForLife ==
    built.driver_failed =>
        /\ self.use_selenium = FALSE
        /\ self.driver = "None"
        /\ built.driver_init = 1
        /\ \A n \in 1..Len(calls) : calls[n].op \notin DriverOps
        /\ \A s \in {"OVERVIEW", "DISCUSSIONS"} :
              Ran(s) => FirstCallIn(s, {"session.get"})
        /\ Ran("NOTEBOOKS") =>
              \/ FirstCallIn("NOTEBOOKS", {"session.get"})
              \/ FirstCallIn("NOTEBOOKS", {"kernels_list"})

PlainModeForLifeWitness ==
    /\ built.driver_failed
    /\ pc = "done"
    /\ result # Unset
    /\ \A s \in FetchStages :
          \E n \in CallsOf(s) : calls[n].op = "session.get"

\* C8: authenticate() is called once, by the constructor, when the API
\* library is there, and never otherwise; after a failed authentication or
\* without the library there is no client in any later state, kernels_list
\* is never called, and the notebook stage goes straight to the page fetch
\* without its handler running unless that fetch itself failed.
AdapterDisabledForLife ==
    /\ built.auth = IF pc # "new" /\ KAGGLE_API_AVAILABLE THEN 1 ELSE 0
    /\ built.auth_failed => built.auth = 1
    /\ (pc # "new" /\ (built.auth_failed \/ ~KAGGLE_API_AVAILABLE)) =>
          /\ self.kaggle_api = "None"
          /\ \A n \in 1..Len(calls) : calls[n].op \notin ApiOps
          /\ Ran("NOTEBOOKS") =>
                /\ FirstCallIn("NOTEBOOKS", TransportOps)
                /\ "NOTEBOOKS" \in errors =>
                      \E n \in CallsOf("NOTEBOOKS") : calls[n].raised

AdapterDisabledWitness ==
    /\ built.auth_failed
    /\ pc = "done"
    /\ result # Unset
    /\ result.notebooks # <<>>
    /\ FirstCallIn("NOTEBOOKS", TransportOps)

\* C9: in each of the three stages, a wait that timed out is followed by
\* the read of the page source in the same stage, and the stage's handler
\* does not run unless a later call of the stage raised.
WaitTimeoutTolerated ==
    \A n \in 1..Len(calls) :
        (calls[n].op = "wait" /\ calls[n].raised) =>
            /\ n < Len(calls)
            /\ calls[n + 1].op = "driver.page_source"
            /\ calls[n + 1].stage = calls[n].stage
            /\ calls[n].stage \in errors =>
                  \E m \in CallsOf(calls[n].stage) : m > n /\ calls[m].raised

\* the links below the fragment, and those whose href holds "/discussion/"
LinksOf(soup, elem) == {j \in Within(soup, elem) : soup[j].tag = "a"}

DiscussionLinksOf(soup, elem) ==
    {j \in LinksOf(soup, elem) : Contains(soup[j].href, "/discussion/")}

\* href holds "/discussion/" followed by exactly the digits d
CarriesId(href, d) ==
    /\ d # ""
    /\ \A k \in 1..Len(d) : Ch(d, k) \in Digits
    /\ \E i \in 1..Len(href) :
          /\ MatchAt(href, "/discussion/" \o d, i)
          /\ \/ i + Len("/discussion/") + Len(d) > Len(href)
             \/ Ch(href, i + Len("/discussion/") + Len(d)) \notin Digits

\* href holds "/discussion/" followed by a digit
Numeric(href) ==
    \E i \in 1..Len(href) :
        /\ MatchAt(href, "/discussion/", i)
        /\ i + Len("/discussion/") <= Len(href)
        /\ Ch(href, i + Len("/discussion/")) \in Digits

\* C10: _extract_thread_info answers a record only for a fragment holding
\* a link whose href carries "/discussion/<digits>", and the record's id
\* is those digits; a fragment with no such link, or whose title link (the
\* first link with "/discussion/" in its href) has no digits there, gets
\* None; a fragment whose title link carries an id gets a record, with the
\* stripped link text as title, empty or not.
ThreadNeedsNumericId ==
    pc = "thread.done" =>
        /\ ret # None =>
              \E j \in LinksOf(arg.soup, arg.elem) :
                  CarriesId(arg.soup[j].href, ret.id)
        /\ (\A j \in LinksOf(arg.soup, arg.elem) : ~Numeric(arg.soup[j].href))
              => ret = None
        /\ DiscussionLinksOf(arg.soup, arg.elem) # {} =>
              \E t \in {Min(DiscussionLinksOf(arg.soup, arg.elem))} :
                  IF Numeric(arg.soup[t].href)
                  THEN /\ ret # None
                       /\ ret.title = Strip(arg.soup[t].text)
                  ELSE ret = None

\* a link with an id and no text: accepted, with the empty title
ThreadNeedsNumericIdWitness ==
    /\ pc = "thread.done"
    /\ ret # None
    /\ ret.id = "123"
    /\ ret.title = ""
    /\ \E j \in LinksOf(arg.soup, arg.elem) : ~Numeric(arg.soup[j].href)

\* the links below the fragment that one of the title-link queries finds
NotebookLinksOf(soup, elem) ==
    {j \in Within(soup, elem) :
        /\ soup[j].tag = "a"
        /\ \/ Contains(soup[j].href, "/code/")
           \/ \E p \in Ancestors(soup, j) :
                 /\ p \in Within(soup, elem)
                 /\ \/ soup[p].tag \in {"h3", "h4"}
                    \/ HasClass(soup[p].class, "kernel-title")
                    \/ HasClass(soup[p].class, "code-title")}

\* C11: _extract_notebook_info answers None for a fragment without a
\* title link, and a record it answers never has the id "unknown" or the
\* empty id.
NotebookNeedsIdentity ==
    pc = "notebook.done" =>
        /\ NotebookLinksOf(arg.soup, arg.elem) = {} => ret = None
        /\ ret # None => ret.id \notin {"", "unknown"}

\* C12: every thread record and every notebook record of a result has a
\* url that is not empty.
UrlsNonEmpty ==
    result # Unset =>
        /\ \A n \in 1..Len(result.discussionThreads) :
              result.discussionThreads[n].url # ""
        /\ \A n \in 1..Len(result.notebooks) :
              result.notebooks[n].url # ""

\* C13: scrape_discussion_threads answers at most max_threads records and
\* get_competition_notebooks at most max_notebooks records, on the markup
\* path and on the API path.
LimitsRespected ==
    /\ pc = "threads.done" => Len(ret.value) <= arg.max_threads
    /\ pc = "notebooks.done" => Len(ret.value) <= arg.max_notebooks

\* C14: a fragment whose title link carries a numeric id gets its record
\* whatever happens to the fetch of the thread's page; when that fetch
\* raised, the record's post list is empty.
PostFailureKeepsThread ==
    (pc = "thread.done" /\ DiscussionLinksOf(arg.soup, arg.elem) # {}) =>
        \E t \in {Min(DiscussionLinksOf(arg.soup, arg.elem))} :
            Numeric(arg.soup[t].href) =>
                /\ ret # None
                /\ arg.detail.status = "raise" => ret.posts = <<>>
                /\ arg.detail.status = "ok" => ret.posts # <<>>

\* the fetch of the thread's page raised, the thread is there without posts
PostFailureKeepsThreadWitness ==
    /\ pc = "thread.done"
    /\ arg.detail.status = "raise"
    /\ ret # None
    /\ ret.id = "123"
    /\ ret.posts = <<>>

\* C15: no thread record that scrape_discussion_threads produces holds
\* more posts than the maximum the caller holds for the scrape.
PostsWithinCallerMax ==
    pc = "threads.done" =>
        \A n \in 1..Len(ret.value) : Len(ret.value[n].posts) <= arg.max_posts

\* the elements the queries find, in query order, each the first in
\* document order that its query matches (0 when it matches none)
FoundBy(soup, scope, selectors) ==
    [k \in 1..Len(selectors) |-> select_one(soup, scope, selectors[k])]

\* the queries whose element has text / has an integer token in its text
WithText(soup, found) ==
    {k \in 1..Len(found) : found[k] # 0 /\ Strip(get_text(soup, found[k])) # ""}

WithNumber(soup, found) ==
    {k \in 1..Len(found) :
        /\ found[k] # 0
        /\ \E i \in 1..Len(get_text(soup, found[k])) :
              Ch(get_text(soup, found[k]), i) \in Digits}

\* what a cascade answers when the first query with a non-empty match wins
TextWinner(soup, found, sentinel) ==
    IF WithText(soup, found) = {} THEN sentinel
    ELSE Strip(get_text(soup, found[Min(WithText(soup, found))]))

NumberWinner(soup, found) ==
    IF WithNumber(soup, found) = {} THEN 0
    ELSE ToInt(FirstNumber(get_text(soup, found[Min(WithNumber(soup, found))])))

\* C16: in each field cascade the first query, in list order, whose first
\* matching element has text (for the counts: has an integer in its text)
\* gives the answer; a query whose element is empty is passed over.
FirstNonEmptyMatchWins ==
    pc = "cascade.done" =>
        /\ ret.title = TextWinner(arg.soup, FoundBy(arg.soup, 0, title_selectors),
                                  "Title not found")
        /\ ret.description =
              TextWinner(arg.soup, FoundBy(arg.soup, 0, description_selectors),
                         "Description not found")
        /\ ret.reward = TextWinner(arg.soup, FoundBy(arg.soup, 0, reward_selectors),
                                   "Reward information not found")
        /\ ret.evaluation = TextWinner(arg.soup, FoundBy(arg.soup, 0, eval_selectors),
                                       "Evaluation information not found")
        /\ ret.author = TextWinner(arg.soup,
                                   FoundBy(arg.soup, arg.elem, author_selectors),
                                   "Unknown")
        /\ ret.replyCount =
              NumberWinner(arg.soup, FoundBy(arg.soup, arg.elem, reply_selectors))
        /\ ret.voteCount =
              NumberWinner(arg.soup, FoundBy(arg.soup, arg.elem, vote_selectors))

\* no query of the list finds an element
NothingFound(soup, scope, selectors) ==
    \A k \in 1..Len(selectors) : select_one(soup, scope, selectors[k]) = 0

\* C17: a page (a fragment) in which no query of a field's cascade finds
\* an element, and for the description no markdown div and no substantial
\* content div either, gives that field's sentinel: 'Title not found',
\* 'Description not found', 'Reward information not found', 'Evaluation
\* information not found', 'Unknown' for the author, 0 for the counts.
NothingFoundGivesSentinel ==
    pc = "cascade.done" =>
        /\ NothingFound(arg.soup, 0, title_selectors)
              => ret.title = "Title not found"
        /\ ( /\ NothingFound(arg.soup, 0, description_selectors)
             /\ MarkdownDivs(arg.soup) = {}
             /\ \A j \in 1..Len(arg.soup) :
                   Len(Strip(get_text(arg.soup, j))) <= MinSubstance )
              => ret.description = "Description not found"
        /\ NothingFound(arg.soup, 0, reward_selectors)
              => ret.reward = "Reward information not found"
        /\ NothingFound(arg.soup, 0, eval_selectors)
              => ret.evaluation = "Evaluation information not found"
        /\ NothingFound(arg.soup, arg.elem, author_selectors)
              => ret.author = "Unknown"
        /\ NothingFound(arg.soup, arg.elem, reply_selectors)
              => ret.replyCount = 0
        /\ NothingFound(arg.soup, arg.elem, vote_selectors)
              => ret.voteCount = 0

\* a page with elements, among them a short content div, and none that a
\* query finds: all seven sentinels
NothingFoundWitness ==
    /\ pc = "cascade.done"
    /\ Len(arg.soup) = 1 + MaxElems
    /\ \E j \in 1..Len(arg.soup) :
          arg.soup[j].class = "content" /\ arg.soup[j].text # ""
    /\ ret = [title |-> "Title not found",
              description |-> "Description not found",
              reward |-> "Reward information not found",
              evaluation |-> "Evaluation information not found",
              author |-> "Unknown",
              replyCount |-> 0,
              voteCount |-> 0]

\* C18: with an adapter, every object the provider lists becomes a record,
\* an attribute the object lacks replaced by its default (0 for the votes,
\* 'unknown' for the language and for the timestamp), and no error reaches
\* the caller of get_competition_notebooks.
OmittedAttributesDefaulted ==
    (pc = "notebooks.done" /\ arg.self.kaggle_api # "None" /\ arg.api.status = "ok") =>
        /\ ret.raised = "none"
        /\ Len(ret.value) = Len(arg.api.list)
        /\ \A n \in 1..Len(arg.api.list) :
              /\ ret.value[n].votes = Attr(arg.api.list[n], "totalVotes", 0)
              /\ ret.value[n].language = Attr(arg.api.list[n], "language", "unknown")
              /\ ret.value[n].lastRunTime =
                    Attr(arg.api.list[n], "lastRunTime", "unknown")

FetchesIn(cs) == SelectSeq(cs, LAMBDA c : c.op \in TransportOps)

\* the fragments scrape_discussion_threads looks at: the first max_threads
Examined(soup, max_threads) ==
    1..Min({max_threads, Len(ThreadElements(soup))})

\* those of them whose title link carries a thread id
WithThreadId(soup, max_threads) ==
    {n \in Examined(soup, max_threads) :
        FetchesDetail(soup, ThreadElements(soup)[n])}

\* C20: scrape_discussion_threads fetches the listing once, first; when
\* that fetch fails it fetches nothing more; otherwise it fetches one
\* detail page for each of the first max_threads fragments that carries
\* a thread id and none for the others, a failed detail fetch counted once
\* like a successful one; it returns at most one record per detail fetch.
NoFetchRepeated ==
    pc = "threads.done" =>
        /\ FetchesIn(ret.calls) # <<>>
        /\ ret.calls[1] = FetchesIn(ret.calls)[1]
        /\ FetchesIn(ret.calls)[1].raised =>
              Len(FetchesIn(ret.calls)) = 1 /\ ret.value = <<>>
        /\ ~FetchesIn(ret.calls)[1].raised /\ ~ret.error =>
              /\ Len(FetchesIn(ret.calls)) =
                    1 + Cardinality(WithThreadId(arg.w.soup, arg.max_threads))
              /\ Len(FetchesIn(ret.calls)) <= 1 + arg.max_threads
              /\ Len(SelectSeq(Tail(FetchesIn(ret.calls)), LAMBDA c : c.raised)) =
                    Cardinality({n \in WithThreadId(arg.w.soup, arg.max_threads) :
                                    arg.details[n].status = "raise"})
              /\ Len(ret.value) = Len(FetchesIn(ret.calls)) - 1

\* a listing whose first fragment has no thread id and whose second has
\* one, the detail fetch of the second failing: two fetches, one record
NoFetchRepeatedWitness ==
    /\ pc = "threads.done"
    /\ arg.w.soup = ListingNewFirst
    /\ arg.max_threads = 2
    /\ arg.details[2].status = "raise"
    /\ Len(FetchesIn(ret.calls)) = 2
    /\ FetchesIn(ret.calls)[2].raised
    /\ Len(ret.value) = 1

\* the try block of get_competition_notebooks raised: kernels_list did, or
\* the mapping of one of the objects it returned did
ApiRaised(api) ==
    \/ api.status = "raise"
    \/ \E n \in 1..Len(api.list) : ~MapsCleanly(api.list[n])

\* a fetch of the code page is among the calls
MarkupFetched(cs) == \E n \in 1..Len(cs) : cs[n].op \in TransportOps

\* C21: get_competition_notebooks fetches the code page exactly when the
\* engine has no adapter or the adapter's block raised. With an adapter
\* whose block did not raise, the answer is the list mapped from the
\* provider's objects, the empty list included; otherwise it is exactly
\* what the markup path returns, with none of the records mapped before
\* the failure.
MarkupPathIffNoApiResult ==
    pc = "notebooks.done" =>
        /\ MarkupFetched(ret.calls) <=>
              (arg.self.kaggle_api = "None" \/ ApiRaised(arg.api))
        /\ (arg.self.kaggle_api # "None" /\ ~ApiRaised(arg.api))
              => ret.value = MapNotebooks(arg.api.list)
        /\ (arg.self.kaggle_api = "None" \/ ApiRaised(arg.api))
              => ret.value =
                    _scrape_notebooks_from_web(arg.self, "t", arg.max_notebooks,
                                               arg.w).value

\* the adapter answers the empty list while the code page lists a
\* notebook: the empty list is returned and the page is not fetched
MarkupPathWitnessEmptyApi ==
    /\ pc = "notebooks.done"
    /\ arg.self.kaggle_api # "None"
    /\ arg.api = [status |-> "ok", list |-> <<>>]
    /\ arg.w.soup = CodeListing
    /\ arg.max_notebooks > 0
    /\ ret.value = <<>>
    /\ ~MarkupFetched(ret.calls)

\* C22: no two thread records of one scrape_discussion_threads result
\* carry the same discussion id, also when several of the fragments
\* examined hold a link to the same discussion.
ThreadIdsDistinct ==
    pc = "threads.done" =>
        \A i, j \in 1..Len(ret.value) :
            i # j => ret.value[i].id # ret.value[j].id

====
